---- MODULE Spec2Model ----
(***************************************************************************)
(* The provider manager (circuit breaker, model rotation, health sweep),   *)
(* the model manager and the fallback controller of the proxy, as a state  *)
(* machine.  One action is one run of a handler between two suspension     *)
(* points of the event loop (an awaited upstream call, the disconnect      *)
(* poll, the sweeper's sleep).                                             *)
(*                                                                         *)
(* Wall-clock instants (time.time()) are kept as the time elapsed since    *)
(* them, counted in ticks and saturated one tick past the largest value a  *)
(* comparison of the code reads; NoTime stands for None.                   *)
(***************************************************************************)
EXTENDS Integers, Sequences, FiniteSets, TLC

(***************************************************************************)
(* Configuration (ProviderManagerConfig) and the inputs of the model.      *)
(***************************************************************************)

\* config.providers, in file order; every provider is enabled at load time.
ProviderOrder == <<"A", "B">>

Providers == {ProviderOrder[i] : i \in DOMAIN ProviderOrder}

\* ProviderConfig.priority (lower = preferred).
priority(p) == IF p = "A" THEN 1 ELSE 2

ModelTypes == {"big", "middle", "small"}

\* ProviderConfig.models: the ordered model list of a provider per size class.
models(p, model_type) ==
    CASE p = "A" /\ model_type = "big"   -> <<"m1", "m2">>
      [] p = "A" /\ model_type = "small" -> <<"s1">>
      [] p = "B" /\ model_type = "big"   -> <<"n1">>
      [] OTHER                           -> <<>>

\* circuit_breaker.failure_threshold of the configuration under check.
FailureThreshold == 2

\* circuit_breaker.recovery_timeout of the configuration under check, in ticks.
RecoveryTimeout == 1

health_check_interval == 300

fallback_strategy == "priority"

\* Inbound model names of the requests.
InboundModels == {"claude-3-opus", "claude-3-5-haiku"}

\* The inbound request slots; a slot takes a new request when its reply is out.
Requests == {"r1"}

\* Depth of the handler recursion (handle_request_with_fallback ->
\* try_fallback -> handle_request_with_fallback) at which the interpreter's
\* recursion limit is reached: the next nested call raises RecursionError.
MaxDepth == 2

\* Largest failure_count the model follows.
MaxFailures == 3

NoTime == -1

NoProvider == "none"

NoModel == "none"

NoError == "none"

\* The kinds of error an upstream call ends in, each raised to the handler as
\* an HTTPException; those the inbound client is to see as they are, and those
\* the fallback is for.
ErrorKinds ==
    {"invalid_request", "auth", "permission", "rate_limit",
     "timeout", "connection", "upstream"}

Surfaced == {"invalid_request", "auth", "permission", "rate_limit"}

Recovered == {"timeout", "connection", "upstream"}

\* The handlers never look at the kind of the error: Spec lets the upstream
\* fail with its 5xx only, UpstreamSpec with every kind.
ServerErrors == {"upstream"}

LegacyFallback == "Legacy Fallback"

big_model == "gpt-4o"

middle_model == big_model

small_model == "gpt-4o-mini"

(***************************************************************************)
(* Model manager: size class of an inbound model name.                     *)
(***************************************************************************)

\* 'haiku' in model_lower / 'sonnet' in model_lower, for the names in use.
contains_haiku(claude_model) == claude_model = "claude-3-5-haiku"

contains_sonnet(claude_model) == claude_model = "claude-3-5-sonnet"

model_type_of(claude_model) ==
    IF contains_haiku(claude_model) THEN "small"
    ELSE IF contains_sonnet(claude_model) THEN "middle"
    ELSE "big"

map_claude_model_to_openai(claude_model) ==
    IF contains_haiku(claude_model) THEN small_model
    ELSE IF contains_sonnet(claude_model) THEN middle_model
    ELSE big_model

(***************************************************************************)
(* Provider manager.  m is the manager object: m.providers[p] is the       *)
(* ProviderState of p, m.health_checks_started the sweeper's start flag,    *)
(* m.health_check_tasks the number of sweeper tasks created,                *)
(* m.health_check_task the task the manager holds: none, running or done.  *)
(***************************************************************************)

ProviderState0 ==
    [status            |-> "healthy",
     failure_count     |-> 0,
     last_failure_time |-> NoTime,
     last_success_time |-> NoTime,
     enabled           |-> TRUE,
     model_indices     |-> [t \in ModelTypes |-> 0]]

\* self.config, and the order of the self.providers dict, of the
\* configuration under check.
Config0 ==
    [order             |-> ProviderOrder,
     priority          |-> [p \in Providers |-> priority(p)],
     fallback_strategy |-> fallback_strategy]

ProviderManager0 ==
    [config                |-> Config0,
     providers             |-> [p \in Providers |-> ProviderState0],
     health_checks_started |-> FALSE,
     health_check_tasks    |-> 0,
     health_check_task     |-> "none"]

\* get_next_model with the cursor moved on without wrapping round.
get_next_model_without_wrap(state, p, model_type) ==
    LET ms            == models(p, model_type)
        current_index == state.model_indices[model_type]
    IN  IF Len(ms) = 0
        THEN [model |-> NoModel, state |-> state]
        ELSE [model |-> ms[(current_index % Len(ms)) + 1],
              state |-> [state EXCEPT !.model_indices[model_type] = current_index + 1]]

\* get_next_model moving the cursor on before reading the model.
get_next_model_after_advance(state, p, model_type) ==
    LET ms            == models(p, model_type)
        current_index == state.model_indices[model_type]
    IN  IF Len(ms) = 0
        THEN [model |-> NoModel, state |-> state]
        ELSE [model |-> ms[((current_index + 1) % Len(ms)) + 1],
              state |-> [state EXCEPT !.model_indices[model_type] =
                                          (current_index + 1) % Len(ms)]]

\* ProviderState.get_next_model: the model at the cursor, and the state with
\* the cursor moved on.
get_next_model(state, p, model_type) ==
    LET ms            == models(p, model_type)
        current_index == state.model_indices[model_type]
    IN  IF Len(ms) = 0
        THEN [model |-> NoModel, state |-> state]
        ELSE [model |-> ms[current_index + 1],
              state |-> [state EXCEPT !.model_indices[model_type] =
                                          (current_index + 1) % Len(ms)]]

\* _start_health_checks creating its task whatever the start flag says.
ensure_health_checks_started_unflagged(m) ==
    IF health_check_interval > 0
    THEN [m EXCEPT !.health_checks_started = TRUE,
                   !.health_check_tasks = @ + 1,
                   !.health_check_task = "running"]
    ELSE m

\* _ensure_health_checks_started / _start_health_checks.
ensure_health_checks_started(m) ==
    IF ~m.health_checks_started /\ health_check_interval > 0
    THEN [m EXCEPT !.health_checks_started = TRUE,
                   !.health_check_tasks = @ + 1,
                   !.health_check_task = "running"]
    ELSE m

\* list.sort(key=priority) is stable: x goes behind the smaller keys and
\* before the equal ones that followed it in the unsorted list.
\* The sort with the larger priority numbers first.
RECURSIVE sort_by_priority_descending(_, _)
sort_by_priority_descending(s, prio) ==
    IF s = <<>> THEN <<>>
    ELSE LET x    == Head(s)
             rest == sort_by_priority_descending(Tail(s), prio)
         IN  SelectSeq(rest, LAMBDA y : prio[y] > prio[x])
             \o <<x>>
             \o SelectSeq(rest, LAMBDA y : prio[y] <= prio[x])

RECURSIVE sort_by_priority(_, _)
sort_by_priority(s, prio) ==
    IF s = <<>> THEN <<>>
    ELSE LET x    == Head(s)
             rest == sort_by_priority(Tail(s), prio)
         IN  SelectSeq(rest, LAMBDA y : prio[y] < prio[x])
             \o <<x>>
             \o SelectSeq(rest, LAMBDA y : prio[y] >= prio[x])

\* get_available_providers taking the enabled flag for the status.
get_available_providers_by_enabled(m) ==
    sort_by_priority(SelectSeq(m.config.order, LAMBDA p : m.providers[p].enabled),
                     m.config.priority)

\* get_available_providers: the healthy providers, sorted by priority.
get_available_providers(m) ==
    sort_by_priority(
        SelectSeq(m.config.order, LAMBDA p : m.providers[p].status = "healthy"),
        m.config.priority)

\* "for state in available_providers: model = state.get_next_model(...);
\*  if model: return state, model": the first provider of the list that has
\* a model of the class.
first_with_model(available, model_type) ==
    LET having == SelectSeq(available, LAMBDA p : Len(models(p, model_type)) > 0)
    IN  IF having = <<>> THEN {} ELSE {Head(having)}

\* The providers a list may yield first after random.shuffle.
any_with_model(available, model_type) ==
    {available[i] : i \in {j \in DOMAIN available :
                              Len(models(available[j], model_type)) > 0}}

\* The manager after provider p handed out its next model of the class.
hand_out(m, p, model_type) ==
    [m EXCEPT !.providers[p] = get_next_model(@, p, model_type).state]

\* The (manager, result) pairs of a selection among the candidates.
selection(m, candidates, model_type) ==
    IF candidates = {}
    THEN {[m |-> m, provider |-> NoProvider, model |-> NoModel]}
    ELSE {[m        |-> hand_out(m, p, model_type),
           provider |-> p,
           model    |-> get_next_model(m.providers[p], p, model_type).model]
          : p \in candidates}

\* get_provider_for_model.
get_provider_for_model(m, model_type) ==
    LET started == ensure_health_checks_started(m)
    IN  selection(started,
                  first_with_model(get_available_providers(started), model_type),
                  model_type)

\* get_fallback_provider_for_model leaving the excluded provider in the list.
get_fallback_provider_for_model_without_filter(m, model_type, exclude_provider) ==
    LET started   == ensure_health_checks_started(m)
        available == get_available_providers(started)
    IN  selection(started,
                  IF m.config.fallback_strategy = "priority"
                  THEN first_with_model(available, model_type)
                  ELSE any_with_model(available, model_type),
                  model_type)

\* get_fallback_provider_for_model.
get_fallback_provider_for_model(m, model_type, exclude_provider) ==
    LET started   == ensure_health_checks_started(m)
        available == SelectSeq(get_available_providers(started),
                               LAMBDA p : p # exclude_provider)
    IN  selection(started,
                  IF m.config.fallback_strategy = "priority"
                  THEN first_with_model(available, model_type)
                  ELSE any_with_model(available, model_type),
                  model_type)

\* get_client_for_model.
get_client_for_model(m, model_type, exclude_provider) ==
    IF exclude_provider # NoProvider
    THEN get_fallback_provider_for_model(m, model_type, exclude_provider)
    ELSE get_provider_for_model(m, model_type)

\* get_next_model_for_provider reading the model at the cursor and leaving
\* the cursor where it is.
get_next_model_for_provider_without_advance(m, provider_name, model_type) ==
    IF provider_name \notin Providers
    THEN [m |-> m, provider |-> NoProvider, model |-> NoModel]
    ELSE IF m.providers[provider_name].status # "healthy"
    THEN [m |-> m, provider |-> NoProvider, model |-> NoModel]
    ELSE LET got == get_next_model(m.providers[provider_name], provider_name, model_type)
         IN  IF got.model = NoModel
             THEN [m |-> m, provider |-> NoProvider, model |-> NoModel]
             ELSE [m |-> m, provider |-> provider_name, model |-> got.model]

\* ProviderManager.get_next_model_for_provider.
get_next_model_for_provider(m, provider_name, model_type) ==
    IF provider_name \notin Providers
    THEN [m |-> m, provider |-> NoProvider, model |-> NoModel]
    ELSE IF m.providers[provider_name].status # "healthy"
    THEN [m |-> m, provider |-> NoProvider, model |-> NoModel]
    ELSE LET got == get_next_model(m.providers[provider_name], provider_name, model_type)
         IN  IF got.model = NoModel
             THEN [m |-> m, provider |-> NoProvider, model |-> NoModel]
             ELSE [m        |-> hand_out(m, provider_name, model_type),
                   provider |-> provider_name,
                   model    |-> got.model]

\* mark_provider_failure setting the rotation cursors back as well.
mark_provider_failure_rewinding(m, provider_name) ==
    IF provider_name \notin Providers THEN m
    ELSE LET n == m.providers[provider_name].failure_count + 1
         IN  [m EXCEPT !.providers[provider_name] =
                 [@ EXCEPT !.failure_count     = n,
                           !.last_failure_time = 0,
                           !.model_indices     = [t \in ModelTypes |-> 0],
                           !.status            = IF n >= FailureThreshold
                                                 THEN "circuit_open"
                                                 ELSE "unhealthy"]]

\* mark_provider_failure opening the circuit one failure early.
mark_provider_failure_one_early(m, provider_name) ==
    IF provider_name \notin Providers THEN m
    ELSE LET n == m.providers[provider_name].failure_count + 1
         IN  [m EXCEPT !.providers[provider_name] =
                 [@ EXCEPT !.failure_count     = n,
                           !.last_failure_time = 0,
                           !.status            = IF n >= FailureThreshold - 1
                                                 THEN "circuit_open"
                                                 ELSE "unhealthy"]]

\* mark_provider_failure opening the circuit one failure late.
mark_provider_failure_one_late(m, provider_name) ==
    IF provider_name \notin Providers THEN m
    ELSE LET n == m.providers[provider_name].failure_count + 1
         IN  [m EXCEPT !.providers[provider_name] =
                 [@ EXCEPT !.failure_count     = n,
                           !.last_failure_time = 0,
                           !.status            = IF n > FailureThreshold
                                                 THEN "circuit_open"
                                                 ELSE "unhealthy"]]

\* mark_provider_failure.
mark_provider_failure(m, provider_name) ==
    IF provider_name \notin Providers THEN m
    ELSE LET n == m.providers[provider_name].failure_count + 1
         IN  [m EXCEPT !.providers[provider_name] =
                 [@ EXCEPT !.failure_count     = n,
                           !.last_failure_time = 0,
                           !.status            = IF n >= FailureThreshold
                                                 THEN "circuit_open"
                                                 ELSE "unhealthy"]]

\* mark_provider_success forgetting the last failure as well.
mark_provider_success_clearing_failure(m, provider_name) ==
    IF provider_name \notin Providers THEN m
    ELSE [m EXCEPT !.providers[provider_name] =
             [@ EXCEPT !.failure_count     = 0,
                       !.last_success_time = 0,
                       !.last_failure_time = NoTime,
                       !.status            = "healthy"]]

\* mark_provider_success leaving last_success_time as it was.
mark_provider_success_without_time(m, provider_name) ==
    IF provider_name \notin Providers THEN m
    ELSE [m EXCEPT !.providers[provider_name] =
             [@ EXCEPT !.failure_count = 0,
                       !.status        = "healthy"]]

\* mark_provider_success.
mark_provider_success(m, provider_name) ==
    IF provider_name \notin Providers THEN m
    ELSE [m EXCEPT !.providers[provider_name] =
             [@ EXCEPT !.failure_count     = 0,
                       !.last_success_time = 0,
                       !.status            = "healthy"]]

\* The test of _perform_health_checks passing at the timeout itself.
circuit_should_close_at_timeout(state) ==
    /\ state.status = "circuit_open"
    /\ state.last_failure_time # NoTime
    /\ state.last_failure_time >= RecoveryTimeout

\* The test of _perform_health_checks on one state.
circuit_should_close(state) ==
    /\ state.status = "circuit_open"
    /\ state.last_failure_time # NoTime
    /\ state.last_failure_time > RecoveryTimeout

\* perform_health_checks setting the unhealthy providers healthy as well.
perform_health_checks_healing_unhealthy(m) ==
    [m EXCEPT !.providers =
        [p \in Providers |->
            IF circuit_should_close(m.providers[p])
                   \/ m.providers[p].status = "unhealthy"
            THEN [m.providers[p] EXCEPT !.status = "healthy", !.failure_count = 0]
            ELSE m.providers[p]]]

\* perform_health_checks closing a circuit without resetting its count.
perform_health_checks_keeping_count(m) ==
    [m EXCEPT !.providers =
        [p \in Providers |->
            IF circuit_should_close(m.providers[p])
            THEN [m.providers[p] EXCEPT !.status = "healthy"]
            ELSE m.providers[p]]]

\* _perform_health_checks.
perform_health_checks(m) ==
    [m EXCEPT !.providers =
        [p \in Providers |->
            IF circuit_should_close(m.providers[p])
            THEN [m.providers[p] EXCEPT !.status = "healthy", !.failure_count = 0]
            ELSE m.providers[p]]]

\* close: the sweeper task, when the manager holds one, is cancelled and
\* awaited; the loop leaves on the CancelledError.
close(m) ==
    IF m.health_check_task # "none"
    THEN [m EXCEPT !.health_check_task = "done"]
    ELSE m

\* toggle_provider leaving an open circuit open when it disables.
toggle_provider_sparing_open(m, provider_name, enabled) ==
    [m EXCEPT !.providers[provider_name] =
        [@ EXCEPT !.enabled = enabled,
                  !.status  = IF ~enabled
                              THEN (IF @ = "circuit_open" THEN @ ELSE "unhealthy")
                              ELSE IF @ = "unhealthy" THEN "healthy"
                              ELSE @]]

\* toggle_provider, on a provider the manager knows.
toggle_provider(m, provider_name, enabled) ==
    [m EXCEPT !.providers[provider_name] =
        [@ EXCEPT !.enabled = enabled,
                  !.status  = IF ~enabled THEN "unhealthy"
                              ELSE IF @ = "unhealthy" THEN "healthy"
                              ELSE @]]

\* ModelManager.get_client_and_model with a provider manager configured: when
\* the manager yields nothing, the legacy client stands in.  Its constructor
\* gets the arguments of the module-level client of the endpoints, which was
\* built when the server started.
get_client_and_model(m, claude_model, exclude_provider) ==
    {IF o.provider # NoProvider THEN o
     ELSE [m        |-> o.m,
           provider |-> LegacyFallback,
           model    |-> map_claude_model_to_openai(claude_model)]
     : o \in get_client_for_model(m, model_type_of(claude_model), exclude_provider)}

\* ModelManager.get_next_model_for_provider.
next_model_for_provider(m, claude_model, provider_name) ==
    get_next_model_for_provider(m, provider_name, model_type_of(claude_model))

(***************************************************************************)
(* Model manager: the model type of an inbound name, character by          *)
(* character.  A name is the sequence of its characters.                   *)
(***************************************************************************)

haiku == <<"h", "a", "i", "k", "u">>

sonnet == <<"s", "o", "n", "n", "e", "t">>

opus == <<"o", "p", "u", "s">>

\* The pieces the inbound names are put together from.
Fragments ==
    {haiku, sonnet, opus,
     <<"H", "a", "i", "k", "u">>,
     <<"S", "O", "N", "N", "E", "T">>,
     <<"h", "a", "i">>,
     <<"k", "u">>,
     <<"-">>}

\* The largest number of pieces of a name.
MaxFragments == 2

RECURSIVE NamesOf(_)
NamesOf(n) ==
    IF n = 0
    THEN {<<>>}
    ELSE LET shorter == NamesOf(n - 1)
         IN  shorter \cup {name \o f : name \in shorter, f \in Fragments}

\* The inbound model names, as character sequences.
Names == NamesOf(MaxFragments)

\* str.lower on one character, for the letters in use.
lower_char(c) ==
    CASE c = "H" -> "h"
      [] c = "A" -> "a"
      [] c = "I" -> "i"
      [] c = "K" -> "k"
      [] c = "U" -> "u"
      [] c = "S" -> "s"
      [] c = "O" -> "o"
      [] c = "N" -> "n"
      [] c = "E" -> "e"
      [] c = "T" -> "t"
      [] OTHER -> c

\* claude_model.lower().
lower(claude_model) ==
    [i \in DOMAIN claude_model |-> lower_char(claude_model[i])]

\* word in model_lower.
contains(model_lower, word) ==
    \E i \in 0 .. Len(model_lower) - Len(word) :
        SubSeq(model_lower, i + 1, i + Len(word)) = word

\* The model type with 'sonnet' looked for before 'haiku'.
retry_model_type_sonnet_first(claude_model) ==
    LET model_lower == lower(claude_model)
    IN  IF contains(model_lower, sonnet) THEN "middle"
        ELSE IF contains(model_lower, haiku) THEN "small"
        ELSE IF contains(model_lower, opus) THEN "big"
        ELSE "big"

\* ModelManager.get_next_model_for_provider, the model type of the name.
retry_model_type(claude_model) ==
    LET model_lower == lower(claude_model)
    IN  IF contains(model_lower, haiku) THEN "small"
        ELSE IF contains(model_lower, sonnet) THEN "middle"
        ELSE IF contains(model_lower, opus) THEN "big"
        ELSE "big"

\* ModelManager.get_client_and_model, the model type of the name.
selection_model_type(claude_model) ==
    LET model_lower == lower(claude_model)
    IN  IF contains(model_lower, haiku) THEN "small"
        ELSE IF contains(model_lower, sonnet) THEN "middle"
        ELSE IF contains(model_lower, opus) THEN "big"
        ELSE "big"

\* The characters of the names the requests of the other specifications
\* carry.
spelling(claude_model) ==
    LET claude == <<"c", "l", "a", "u", "d", "e", "-", "3", "-">>
    IN  CASE claude_model = "claude-3-opus" -> claude \o opus
          [] claude_model = "claude-3-5-haiku" ->
                 claude \o <<"5", "-">> \o haiku
          [] claude_model = "claude-3-5-sonnet" ->
                 claude \o <<"5", "-">> \o sonnet

(***************************************************************************)
(* The router: client key validation and the configuration document.       *)
(***************************************************************************)

\* None, for ANTHROPIC_API_KEY and for a header the request does not carry.
NoKey == "none"

\* The keys a client can present; the first is the one the proxy may be
\* configured with.
ClientKeys == {"k1", "k2"}

\* The values of the x-api-key header.
XApiKeys == ClientKeys \cup {NoKey}

\* The values of the Authorization header: a scheme and its credentials.
NoAuthorization == [scheme |-> NoKey, credentials |-> NoKey]

Authorizations ==
    [scheme : {"Bearer", "Basic"}, credentials : ClientKeys]
        \cup {NoAuthorization}

\* The routes of the router; auth says whether the route's handler declares
\* Depends(validate_api_key).
Routes ==
    {[method |-> "POST", path |-> "/v1/messages", auth |-> TRUE],
     [method |-> "POST", path |-> "/v1/messages/count_tokens", auth |-> TRUE],
     [method |-> "GET", path |-> "/health", auth |-> FALSE],
     [method |-> "GET", path |-> "/test-connection", auth |-> FALSE],
     [method |-> "GET", path |-> "/", auth |-> FALSE],
     [method |-> "GET", path |-> "/api/config/providers", auth |-> FALSE],
     [method |-> "PUT", path |-> "/api/config/providers", auth |-> FALSE],
     [method |-> "POST", path |-> "/api/config/reload", auth |-> FALSE],
     [method |-> "POST", path |-> "/api/providers/{provider_name}/test",
      auth |-> FALSE],
     [method |-> "PUT", path |-> "/api/providers/{provider_name}/toggle",
      auth |-> FALSE]}

\* validate_api_key, the extraction of the client key from the two headers.
client_api_key(x_api_key, authorization) ==
    IF x_api_key # NoKey
    THEN x_api_key
    ELSE IF authorization.scheme = "Bearer"
         THEN authorization.credentials
         ELSE NoKey

\* Config.validate_client_api_key.
validate_client_api_key(anthropic_api_key, key) ==
    IF anthropic_api_key = NoKey THEN TRUE ELSE key = anthropic_api_key

\* validate_api_key: TRUE when it returns, FALSE when it raises the 401.
validate_api_key(anthropic_api_key, x_api_key, authorization) ==
    LET key == client_api_key(x_api_key, authorization)
    IN  IF anthropic_api_key = NoKey
        THEN TRUE
        ELSE ~(key = NoKey \/ ~validate_client_api_key(anthropic_api_key, key))

\* No exchange yet.
NoExchange ==
    [route         |-> [method |-> "none", path |-> "none", auth |-> FALSE],
     x_api_key     |-> NoKey,
     authorization |-> NoAuthorization,
     entered       |-> FALSE,
     reply         |-> "none"]

\* ProviderManagerConfig.fallback_strategy: Literal[...].
Strategies == {"priority", "round_robin", "random"}

\* The members ProviderConfig requires of a provider entry (Field(...)).
RequiredMembers == {"name", "priority", "api_key", "base_url"}

\* The provider lists of a document: none, or the providers of the
\* deployment in their order, the first entry complete or with no api_key.
ProviderLists ==
    {<<>>} \cup
    {[i \in DOMAIN ProviderOrder |->
         [name    |-> ProviderOrder[i],
          members |-> IF i = 1 THEN ms ELSE RequiredMembers]] :
        ms \in {RequiredMembers, RequiredMembers \ {"api_key"}}}

\* The members a JSON object sent as the document can have; ProviderConfig
\* and ProviderManagerConfig ignore the members they do not declare.
DocumentMembers == {"providers", "fallback_strategy", "comment"}

\* The documents save_providers_config can be called with (config_data:
\* dict): JSON objects with some of the members; a member the object does
\* not have holds no value.
Documents ==
    {d \in [members           : SUBSET DocumentMembers,
            providers         : ProviderLists,
            fallback_strategy : Strategies \cup {"fastest", NoKey}] :
        /\ "providers" \notin d.members => d.providers = <<>>
        /\ ("fallback_strategy" \in d.members) <=> (d.fallback_strategy # NoKey)}

\* ProviderManagerConfig(**config_data): TRUE when the model is built, FALSE
\* when pydantic raises (providers is required, every entry must carry the
\* required members, fallback_strategy must be one of the literals).
ProviderManagerConfig(config_data) ==
    /\ "providers" \in config_data.members
    /\ \A i \in DOMAIN config_data.providers :
           RequiredMembers \subseteq config_data.providers[i].members
    /\ "fallback_strategy" \in config_data.members
           => config_data.fallback_strategy \in Strategies

\* The content of config/providers.json the proxy starts with.
Document0 ==
    [members           |-> {"providers"},
     providers         |-> [i \in DOMAIN ProviderOrder |->
                               [name    |-> ProviderOrder[i],
                                members |-> RequiredMembers]],
     fallback_strategy |-> NoKey]

\* The application when the process starts.
App0 ==
    [process           |-> "serving",
     anthropic_api_key |-> NoKey,
     exchange          |-> NoExchange,
     config_file       |-> Document0,
     provider_manager  |-> [generation |-> 0, none |-> FALSE]]

(***************************************************************************)
(* State.                                                                  *)
(***************************************************************************)

VARIABLES
    pm,     \* config.provider_manager: the provider manager object
    req,    \* the inbound POST /v1/messages requests and where each handler
            \* stands: pc, the locals provider_name and model_name, the
            \* recursion depth, the kind of the HTTPException try_fallback
            \* holds while it runs and answers with in its last resort
            \* (error), and the reply
    hist,   \* per request, what its handler has done so far: the manager it
            \* made its last selection from (manager), the providers it
            \* went to (tried), those it called mark_provider_failure on
            \* (failed), those it did so with more than once (retried,
            \* refailed), the kinds of error its upstream calls ended in
            \* (errors), the kind the last of them ended in (last_error),
            \* the number of its upstream calls in flight (in_flight) and
            \* the request ids its stream was created with (ids)
    served, \* the number of requests the sequential client of SequentialSpec
            \* has had answered with a response
    app     \* the application around the handlers: whether the process is
            \* serving or has exited (process), the client key the
            \* configuration holds (anthropic_api_key), the last HTTP
            \* exchange the router dispatched (exchange), the content of
            \* config/providers.json (config_file) and what
            \* config.provider_manager refers to (provider_manager): the
            \* manager built by the generation-th reload, whose state pm
            \* is, or None

vars == <<pm, req, hist, served, app>>

IdleRequest ==
    [pc            |-> "idle",
     claude_model  |-> "claude-3-opus",
     stream        |-> FALSE,
     provider_name |-> NoProvider,
     model_name    |-> NoModel,
     depth         |-> 0,
     error         |-> NoError,
     reply         |-> "none"]

\* A request id: the uuid4 drawn at one place (site) of the handler
\* invocation at one depth of the recursion; two draws give two ids.
uuid4(depth, site) == <<depth, site>>

NoId == uuid4(0, "none")

\* No stream was created yet.
NoIds == [upstream |-> NoId, translator |-> NoId, reported |-> NoId]

NoHistory ==
    [tried |-> {}, failed |-> {}, retried |-> {}, refailed |-> {}, errors |-> {},
     last_error |-> NoError, in_flight |-> 0, ids |-> NoIds, manager |-> 0]

\* handle_request_with_fallback creates its stream: the request_id drawn at
\* its start goes to the upstream stream call, to the translator and into
\* the X-Request-ID header.
stream_created(h, depth) ==
    LET request_id == uuid4(depth, "request_id")
    IN  [h EXCEPT !.ids = [upstream   |-> request_id,
                           translator |-> request_id,
                           reported   |-> request_id]]

\* try_fallback creates the stream of its retry: each of the three places
\* draws a uuid4 of its own.
retry_stream_created(h, depth) ==
    [h EXCEPT !.ids = [upstream   |-> uuid4(depth, "create_chat_completion_stream"),
                       translator |-> uuid4(depth, "translator"),
                       reported   |-> uuid4(depth, "X-Request-ID")]]

\* The history of a request after an upstream call of it (a unary call or an
\* upstream stream) was started, and after one returned.
call_started(h) == [h EXCEPT !.in_flight = @ + 1]

call_returned(h) == [h EXCEPT !.in_flight = @ - 1]

\* The history after an upstream call raised this error, the call counted as
\* still in flight.
failed_with_call_open(h, error) ==
    [h EXCEPT !.errors = @ \cup {error}, !.last_error = error]

\* The history of a request after an upstream call of it raised this error:
\* the await of the call is over.
failed_with(h, error) ==
    [h EXCEPT !.errors = @ \cup {error}, !.last_error = error, !.in_flight = @ - 1]

\* The history of a request after its handler went to provider p.
went_to(h, p) ==
    [h EXCEPT !.tried = @ \cup {p}, !.retried = @ \cup (h.tried \cap {p}),
              !.manager = app.provider_manager.generation]

\* The history of a request after its handler called mark_provider_failure(p).
marked_failed(h, p) ==
    [h EXCEPT !.failed = @ \cup {p}, !.refailed = @ \cup (h.failed \cap {p})]

Init ==
    /\ pm = ProviderManager0
    /\ req = [r \in Requests |-> IdleRequest]
    /\ hist = [r \in Requests |-> NoHistory]
    /\ served = 0
    /\ app = App0

(***************************************************************************)
(* Fallback controller: handle_request_with_fallback and try_fallback.     *)
(***************************************************************************)

\* create_message, and handle_request_with_fallback up to the disconnect
\* poll: the selection for the inbound model name.
create_message(r) ==
    /\ req[r].pc = "idle"
    /\ UNCHANGED <<served, app>>
    /\ \E claude_model \in InboundModels, stream \in BOOLEAN :
       \E o \in get_client_and_model(pm, claude_model, NoProvider) :
          /\ pm' = o.m
          /\ req' = [req EXCEPT ![r] =
                        [IdleRequest EXCEPT !.pc            = "disconnect_check",
                                            !.claude_model  = claude_model,
                                            !.stream        = stream,
                                            !.provider_name = o.provider,
                                            !.model_name    = o.model]]
          /\ hist' = [hist EXCEPT ![r] = went_to(NoHistory, o.provider)]

\* The 499 caught like an error of the upstream call: the provider is marked
\* failed before the reply goes out.
client_disconnected_as_failure(r) ==
    /\ req[r].pc = "disconnect_check"
    /\ pm' = mark_provider_failure(pm, req[r].provider_name)
    /\ req' = [req EXCEPT ![r].pc = "done", ![r].reply = "499"]
    /\ UNCHANGED <<hist, served, app>>

\* "if await http_request.is_disconnected(): raise HTTPException(499)".
client_disconnected(r) ==
    /\ req[r].pc = "disconnect_check"
    /\ req' = [req EXCEPT ![r].pc = "done", ![r].reply = "499"]
    /\ UNCHANGED <<pm, hist, served, app>>

\* request.stream: the stream is created and the StreamingResponse returned.
start_stream(r) ==
    /\ req[r].pc = "disconnect_check"
    /\ req[r].stream
    /\ req' = [req EXCEPT ![r].pc = "done", ![r].reply = "stream"]
    /\ hist' = [hist EXCEPT ![r] = stream_created(call_started(@), req[r].depth)]
    /\ UNCHANGED <<pm, served, app>>

\* "await openai_client.create_chat_completion(...)": the call is in flight.
start_call(r) ==
    /\ req[r].pc = "disconnect_check"
    /\ ~req[r].stream
    /\ req' = [req EXCEPT ![r].pc = "call"]
    /\ hist' = [hist EXCEPT ![r] = call_started(@)]
    /\ UNCHANGED <<pm, served, app>>

\* The upstream call (first attempt or in-provider retry) returns a response.
upstream_success(r) ==
    /\ req[r].pc \in {"call", "retry_call"}
    /\ ~req[r].stream
    /\ pm' = mark_provider_success(pm, req[r].provider_name)
    /\ req' = [req EXCEPT ![r].pc = "done", ![r].reply = "200", ![r].error = NoError]
    /\ hist' = [hist EXCEPT ![r] = call_returned(@)]
    /\ UNCHANGED <<served, app>>

\* try_fallback from "mark_provider_failure" on: the failure is recorded, a
\* fallback is selected with the failed provider excluded and, one being
\* found, handle_request_with_fallback runs again from its start; at the
\* recursion limit that call raises RecursionError, which the handlers above
\* turn into a 500 reply.
escalate(r, failed_provider, error, next_error) ==
    /\ failed_provider \in Providers =>
           pm.providers[failed_provider].failure_count < MaxFailures
    /\ UNCHANGED <<served, app>>
    /\ LET marked == mark_provider_failure(pm, failed_provider)
           raised == IF next_error # NoError THEN next_error ELSE error
       IN  \E fallback_result \in
                 get_client_and_model(marked, req[r].claude_model, failed_provider) :
             IF fallback_result.provider = NoProvider
             THEN /\ pm' = fallback_result.m
                  /\ req' = [req EXCEPT ![r].pc    = "done",
                                        ![r].reply = "error",
                                        ![r].error = error]
                  /\ hist' = [hist EXCEPT ![r] =
                                  marked_failed(failed_with(@, raised), failed_provider)]
             ELSE IF req[r].depth >= MaxDepth
             THEN /\ pm' = fallback_result.m
                  /\ req' = [req EXCEPT ![r].pc    = "done",
                                        ![r].reply = "500",
                                        ![r].error = NoError]
                  /\ hist' = [hist EXCEPT ![r] =
                                  marked_failed(failed_with(@, raised), failed_provider)]
             ELSE \E o \in get_client_and_model(fallback_result.m,
                                                req[r].claude_model, NoProvider) :
                    /\ pm' = o.m
                    /\ req' = [req EXCEPT ![r].pc            = "disconnect_check",
                                          ![r].provider_name = o.provider,
                                          ![r].model_name    = o.model,
                                          ![r].depth         = @ + 1,
                                          ![r].error         = NoError]
                    /\ hist' = [hist EXCEPT ![r] =
                                    went_to(marked_failed(failed_with(@, raised),
                                                          failed_provider),
                                            o.provider)]

\* The retry in the provider started from the body of a stream as well, when
\* the upstream stream breaks after events have been forwarded.
retry_in_provider_mid_stream(r, error) ==
    /\ \/ req[r].pc = "call"
       \/ req[r].pc = "done" /\ req[r].reply = "stream_events"
    /\ LET next == next_model_for_provider(pm, req[r].claude_model, req[r].provider_name)
       IN  /\ next.provider # NoProvider
           /\ pm' = next.m
           /\ req' = [req EXCEPT ![r].pc         = "retry_call",
                                 ![r].reply      = "none",
                                 ![r].model_name = next.model,
                                 ![r].error      = error]
           /\ hist' = [hist EXCEPT ![r] = call_started(failed_with(@, error))]
           /\ UNCHANGED <<served, app>>

\* The first upstream call raises HTTPException (error): try_fallback asks for
\* the next model of the same provider and retries on it.
retry_in_provider(r, error) ==
    /\ req[r].pc = "call"
    /\ LET next == next_model_for_provider(pm, req[r].claude_model, req[r].provider_name)
       IN  /\ next.provider # NoProvider
           /\ pm' = next.m
           /\ req' = [req EXCEPT ![r].pc         = IF req[r].stream THEN "done" ELSE "retry_call",
                                 ![r].reply      = IF req[r].stream THEN "stream" ELSE @,
                                 ![r].model_name = next.model,
                                 ![r].error      = error]
           /\ hist' = [hist EXCEPT ![r] =
                           IF req[r].stream
                           THEN retry_stream_created(
                                    call_started(failed_with(@, error)),
                                    req[r].depth)
                           ELSE call_started(failed_with(@, error))]
           /\ UNCHANGED <<served, app>>

\* The first upstream call raises HTTPException and the provider has no next
\* model to hand out.
fallback_without_retry(r, error) ==
    /\ req[r].pc = "call"
    /\ next_model_for_provider(pm, req[r].claude_model, req[r].provider_name).provider
           = NoProvider
    /\ escalate(r, req[r].provider_name, error, NoError)

\* The in-provider retry raises too (next_error).
fallback_after_retry(r, next_error) ==
    /\ req[r].pc = "retry_call"
    /\ escalate(r, req[r].provider_name, req[r].error, next_error)

\* The reply has gone out; the slot takes the next inbound request.
finish(r) ==
    /\ req[r].pc = "done"
    /\ req' = [req EXCEPT ![r] = IdleRequest]
    /\ hist' = [hist EXCEPT ![r] = NoHistory]
    /\ UNCHANGED <<pm, served, app>>

(***************************************************************************)
(* Admin surface, health sweeper, clock.                                   *)
(***************************************************************************)

\* PUT /api/providers/{provider_name}/toggle.
toggle(p, enabled) ==
    /\ pm' = toggle_provider(pm, p, enabled)
    /\ UNCHANGED <<req, hist, served, app>>

\* _health_check_loop: the sleep ends and _perform_health_checks runs.
sweep ==
    /\ pm.health_checks_started
    /\ pm.health_check_task = "running"
    /\ pm' = perform_health_checks(pm)
    /\ UNCHANGED <<req, hist, served, app>>

elapse(t, cap) == IF t = NoTime THEN NoTime ELSE IF t < cap THEN t + 1 ELSE cap

\* One tick of wall-clock time passes.
tick ==
    /\ pm' = [pm EXCEPT !.providers =
                 [p \in Providers |->
                     [pm.providers[p] EXCEPT
                         !.last_failure_time = elapse(@, RecoveryTimeout + 1),
                         !.last_success_time = elapse(@, 0)]]]
    /\ pm' # pm
    /\ UNCHANGED <<req, hist, served, app>>

Next ==
    \/ \E r \in Requests : create_message(r)
    \/ \E r \in Requests : client_disconnected(r)
    \/ \E r \in Requests : start_stream(r)
    \/ \E r \in Requests : start_call(r)
    \/ \E r \in Requests : upstream_success(r)
    \/ \E r \in Requests, error \in ServerErrors : retry_in_provider(r, error)
    \/ \E r \in Requests, error \in ServerErrors : fallback_without_retry(r, error)
    \/ \E r \in Requests, error \in ServerErrors : fallback_after_retry(r, error)
    \/ \E r \in Requests : finish(r)
    \/ \E p \in Providers, enabled \in BOOLEAN : toggle(p, enabled)
    \/ sweep
    \/ tick

Spec == Init /\ [][Next]_vars

(***************************************************************************)
(* The provider manager under its most general client: the public methods  *)
(* called in any order, with any arguments, by any number of handlers.     *)
(* Every sequence of manager states that concurrent requests can produce   *)
(* is one of these.                                                        *)
(***************************************************************************)

\* get_client_for_model(model_type): pick.
pick(model_type) ==
    /\ \E o \in get_client_for_model(pm, model_type, NoProvider) : pm' = o.m
    /\ UNCHANGED <<req, hist, served, app>>

\* get_client_for_model(model_type, exclude_provider): pick with exclude.
pick_excluding(model_type, exclude_provider) ==
    /\ \E o \in get_client_for_model(pm, model_type, exclude_provider) : pm' = o.m
    /\ UNCHANGED <<req, hist, served, app>>

\* get_next_model_for_provider(provider_name, model_type): pick_next_in.
pick_next_in(provider_name, model_type) ==
    /\ pm' = get_next_model_for_provider(pm, provider_name, model_type).m
    /\ UNCHANGED <<req, hist, served, app>>

\* mark_provider_failure(provider_name).
mark_failure(provider_name) ==
    /\ provider_name \in Providers =>
           pm.providers[provider_name].failure_count < MaxFailures
    /\ pm' = mark_provider_failure(pm, provider_name)
    /\ UNCHANGED <<req, hist, served, app>>

\* mark_provider_success(provider_name).
mark_success(provider_name) ==
    /\ pm' = mark_provider_success(pm, provider_name)
    /\ UNCHANGED <<req, hist, served, app>>

\* Names a caller may pass: the providers and the legacy client's name.
ProviderNames == Providers \cup {LegacyFallback}

ManagerNext ==
    \/ \E t \in ModelTypes : pick(t)
    \/ \E t \in ModelTypes, p \in ProviderNames : pick_excluding(t, p)
    \/ \E t \in ModelTypes, p \in ProviderNames : pick_next_in(p, t)
    \/ \E p \in ProviderNames : mark_failure(p)
    \/ \E p \in ProviderNames : mark_success(p)
    \/ \E p \in Providers, enabled \in BOOLEAN : toggle(p, enabled)
    \/ sweep
    \/ tick

ManagerSpec == Init /\ [][ManagerNext]_vars

\* The event loop runs the sweeper task, once started, whenever its sleep has
\* ended, and the wall clock moves on.
FairManagerSpec == ManagerSpec /\ WF_vars(tick) /\ WF_vars(sweep)

(***************************************************************************)
(* The selections of the provider manager for every configuration of the   *)
(* two providers (either order in the file, any priorities, any fallback   *)
(* strategy) and every status and cursor its callers and the admin toggle  *)
(* bring about.  A selection reads the configuration, the statuses and the *)
(* cursors only; the clock and the sweeper are part of ManagerSpec.        *)
(***************************************************************************)

\* ProviderConfig.priority: two values give every order two providers can
\* have by priority (smaller, equal, larger).
Priorities == {1, 2}

\* The orders the providers can have in the configuration file.
Orders ==
    {o \in [1 .. Len(ProviderOrder) -> Providers] :
        \A i, j \in 1 .. Len(ProviderOrder) : o[i] = o[j] => i = j}

Configs ==
    [order             : Orders,
     priority          : [Providers -> Priorities],
     fallback_strategy : Strategies]

ConfiguredInit ==
    /\ pm \in {[ProviderManager0 EXCEPT !.config = c] : c \in Configs}
    /\ req = [r \in Requests |-> IdleRequest]
    /\ hist = [r \in Requests |-> NoHistory]
    /\ served = 0
    /\ app = App0

ConfiguredNext ==
    \/ \E t \in ModelTypes : pick(t)
    \/ \E t \in ModelTypes, p \in ProviderNames : pick_excluding(t, p)
    \/ \E t \in ModelTypes, p \in ProviderNames : pick_next_in(p, t)
    \/ \E p \in ProviderNames : mark_failure(p)
    \/ \E p \in ProviderNames : mark_success(p)
    \/ \E p \in Providers, enabled \in BOOLEAN : toggle(p, enabled)

ConfiguredSpec == ConfiguredInit /\ [][ConfiguredNext]_vars

(***************************************************************************)
(* One client sending requests for the big class one after the other,      *)
(* against a provider A whose every upstream call fails and a provider B   *)
(* whose every upstream call succeeds; nobody toggles.  A streaming        *)
(* request is answered with the stream before the upstream is called, so   *)
(* only non-streaming requests count as answered with a response.          *)
(***************************************************************************)

\* The client sends its next request, the one before having been answered.
sequential_request(r) ==
    /\ served < FailureThreshold
    /\ create_message(r)
    /\ req'[r].claude_model = "claude-3-opus"

\* A's first call for the request raises; A hands out its next model.
A_fails(r) ==
    /\ req[r].provider_name = "A"
    /\ \E error \in ServerErrors : retry_in_provider(r, error)

\* A's call on the next model raises too.
A_fails_again(r) ==
    /\ req[r].provider_name = "A"
    /\ \E error \in ServerErrors : fallback_after_retry(r, error)

\* B's call returns a response.
B_succeeds(r) ==
    /\ req[r].provider_name = "B"
    /\ upstream_success(r)

\* The reply has gone out to the sequential client.
answered(r) ==
    /\ req[r].pc = "done"
    /\ req' = [req EXCEPT ![r] = IdleRequest]
    /\ hist' = [hist EXCEPT ![r] = NoHistory]
    /\ served' = IF req[r].reply = "200" THEN served + 1 ELSE served
    /\ UNCHANGED app
    /\ UNCHANGED pm

SequentialNext ==
    \/ \E r \in Requests : sequential_request(r)
    \/ \E r \in Requests : client_disconnected(r)
    \/ \E r \in Requests : start_stream(r)
    \/ \E r \in Requests : start_call(r)
    \/ \E r \in Requests : A_fails(r)
    \/ \E r \in Requests : A_fails_again(r)
    \/ \E r \in Requests : B_succeeds(r)
    \/ \E r \in Requests : answered(r)
    \/ sweep
    \/ tick

SequentialSpec == Init /\ [][SequentialNext]_vars

(***************************************************************************)
(* The controller before an upstream that fails in every kind, the admin   *)
(* surface left alone.                                                     *)
(***************************************************************************)

UpstreamNext ==
    \/ \E r \in Requests : create_message(r)
    \/ \E r \in Requests : client_disconnected(r)
    \/ \E r \in Requests : start_stream(r)
    \/ \E r \in Requests : start_call(r)
    \/ \E r \in Requests : upstream_success(r)
    \/ \E r \in Requests, error \in ErrorKinds : retry_in_provider(r, error)
    \/ \E r \in Requests, error \in ErrorKinds : fallback_without_retry(r, error)
    \/ \E r \in Requests, error \in ErrorKinds : fallback_after_retry(r, error)
    \/ \E r \in Requests : finish(r)
    \/ sweep
    \/ tick

UpstreamSpec == Init /\ [][UpstreamNext]_vars

(***************************************************************************)
(* The body of a StreamingResponse.  The handler has returned; the server  *)
(* iterates convert_openai_streaming_to_claude_with_cancellation, which    *)
(* was given the upstream stream, the inbound request, the logger, the     *)
(* http request, the client and the request id: neither the provider       *)
(* manager nor the name of the provider.  The upstream stream was created  *)
(* without being awaited, so the upstream call itself runs, and fails,     *)
(* only here.                                                              *)
(***************************************************************************)

\* The first upstream chunk arrives and is forwarded (message_start).
upstream_first_event(r) ==
    /\ req[r].pc = "done"
    /\ req[r].reply = "stream"
    /\ req' = [req EXCEPT ![r].reply = "stream_events"]
    /\ UNCHANGED <<pm, hist, served, app>>

\* The upstream stream breaks, before or after its first chunk: the
\* response ends there.
upstream_stream_fails(r, error) ==
    /\ req[r].pc = "done"
    /\ req[r].reply \in {"stream", "stream_events"}
    /\ req' = [req EXCEPT ![r].reply = IF @ = "stream" THEN "stream_failed"
                                      ELSE "stream_cut"]
    /\ hist' = [hist EXCEPT ![r] = failed_with(@, error)]
    /\ UNCHANGED <<pm, served, app>>

\* The upstream stream comes to its end ([DONE]) and the response with it.
upstream_stream_ends(r) ==
    /\ req[r].pc = "done"
    /\ req[r].reply = "stream_events"
    /\ req' = [req EXCEPT ![r].reply = "stream_ended"]
    /\ hist' = [hist EXCEPT ![r] = call_returned(@)]
    /\ UNCHANGED <<pm, served, app>>

StreamNext ==
    \/ UpstreamNext
    \/ \E r \in Requests : upstream_first_event(r)
    \/ \E r \in Requests, error \in ErrorKinds : upstream_stream_fails(r, error)
    \/ \E r \in Requests : upstream_stream_ends(r)

StreamSpec == Init /\ [][StreamNext]_vars

(***************************************************************************)
(* The router in front of the handlers.                                    *)
(***************************************************************************)

\* The process was started with or without ANTHROPIC_API_KEY.
AuthInit ==
    /\ pm = ProviderManager0
    /\ req = [r \in Requests |-> IdleRequest]
    /\ hist = [r \in Requests |-> NoHistory]
    /\ served = 0
    /\ app \in {[App0 EXCEPT !.anthropic_api_key = k] : k \in {NoKey, "k1"}}

\* The router resolves the dependencies of the route's handler and, when
\* none of them raised, enters the handler: validate_api_key runs only for
\* the handlers that declare it.
dispatch(route, x_api_key, authorization) ==
    LET passed == route.auth =>
                      validate_api_key(app.anthropic_api_key, x_api_key,
                                       authorization)
    IN  /\ app' = [app EXCEPT !.exchange =
                      [route         |-> route,
                       x_api_key     |-> x_api_key,
                       authorization |-> authorization,
                       entered       |-> passed,
                       reply         |-> IF passed THEN "none" ELSE "401"]]
        /\ UNCHANGED <<pm, req, hist, served>>

AuthNext ==
    \E route \in Routes, x_api_key \in XApiKeys,
       authorization \in Authorizations :
        dispatch(route, x_api_key, authorization)

AuthSpec == AuthInit /\ [][AuthNext]_vars

(***************************************************************************)
(* The configuration file behind the admin endpoints.                      *)
(***************************************************************************)

SaveRoute ==
    [method |-> "PUT", path |-> "/api/config/providers", auth |-> FALSE]

\* The exchange of a PUT /api/config/providers answered with reply.
save_exchange(reply) ==
    [route         |-> SaveRoute,
     x_api_key     |-> NoKey,
     authorization |-> NoAuthorization,
     entered       |-> TRUE,
     reply         |-> reply]

\* save_providers_config with the file written before the document is
\* validated.
save_providers_config_write_first(config_data) ==
    /\ app' = [app EXCEPT
                  !.config_file = config_data,
                  !.exchange = save_exchange(
                      IF ProviderManagerConfig(config_data)
                      THEN "200" ELSE "400")]
    /\ UNCHANGED <<pm, req, hist, served>>

\* save_providers_config: the document is validated, then written.
save_providers_config(config_data) ==
    /\ app' = IF ProviderManagerConfig(config_data)
              THEN [app EXCEPT !.config_file = config_data,
                               !.exchange = save_exchange("200")]
              ELSE [app EXCEPT !.exchange = save_exchange("400")]
    /\ UNCHANGED <<pm, req, hist, served>>

ConfigNext ==
    \/ \E config_data \in Documents : save_providers_config(config_data)
    \/ \E p \in Providers, enabled \in BOOLEAN : toggle(p, enabled)
    \/ \E p \in ProviderNames : mark_failure(p)

ConfigSpec == Init /\ [][ConfigNext]_vars

(***************************************************************************)
(* One request for each inbound name: the first selection and the          *)
(* in-provider retry work out the model type of the name.                  *)
(***************************************************************************)

\* A request with the name, before its handler selected anything.
NamedRequest(claude_model) ==
    [pc               |-> "idle",
     claude_model     |-> claude_model,
     model_type       |-> NoModel,
     retry_model_type |-> NoModel]

NameInit ==
    /\ pm = ProviderManager0
    /\ req \in [Requests -> {NamedRequest(name) : name \in Names}]
    /\ hist = [r \in Requests |-> NoHistory]
    /\ served = 0
    /\ app = App0

\* ModelManager.get_client_and_model works out the model type.
first_selection(r) ==
    /\ req[r].pc = "idle"
    /\ req' = [req EXCEPT
                  ![r].pc = "selected",
                  ![r].model_type = selection_model_type(req[r].claude_model)]
    /\ UNCHANGED <<pm, hist, served, app>>

\* ModelManager.get_next_model_for_provider works out the model type.
retry_selection(r) ==
    /\ req[r].pc = "selected"
    /\ req' = [req EXCEPT
                  ![r].pc = "retried",
                  ![r].retry_model_type = retry_model_type(req[r].claude_model)]
    /\ UNCHANGED <<pm, hist, served, app>>

NameNext ==
    \/ \E r \in Requests : first_selection(r)
    \/ \E r \in Requests : retry_selection(r)

NameSpec == NameInit /\ [][NameNext]_vars

(***************************************************************************)
(* The controller before an upstream whose stream call can raise as the    *)
(* unary call does: the handler catches HTTPException around both.         *)
(***************************************************************************)

\* "openai_client.create_chat_completion_stream(...)" raises: the handler
\* is in its except clause, about to call try_fallback.
stream_open_fails(r) ==
    /\ req[r].pc = "disconnect_check"
    /\ req[r].stream
    /\ req' = [req EXCEPT ![r].pc = "call"]
    /\ hist' = [hist EXCEPT ![r] = call_started(@)]
    /\ UNCHANGED <<pm, served, app>>

RaisingStreamNext ==
    \/ UpstreamNext
    \/ \E r \in Requests : stream_open_fails(r)

RaisingStreamSpec == Init /\ [][RaisingStreamNext]_vars

(***************************************************************************)
(* POST /api/config/reload between the requests, in a process started      *)
(* with config/providers.json and without OPENAI_API_KEY.                  *)
(***************************************************************************)

\* The number of reloads that build a manager.
MaxReloads == 2

ReloadRoute ==
    [method |-> "POST", path |-> "/api/config/reload", auth |-> FALSE]

\* The exchange of a POST /api/config/reload answered with reply.
reload_exchange(reply) ==
    [route         |-> ReloadRoute,
     x_api_key     |-> NoKey,
     authorization |-> NoAuthorization,
     entered       |-> TRUE,
     reply         |-> reply]

\* load_provider_config gets a manager with providers out of the document:
\* from_file accepts it and _initialize_providers materialises a provider.
loads(config_data) ==
    /\ ProviderManagerConfig(config_data)
    /\ config_data.providers # <<>>

\* ProviderManager(provider_config) for the document.
ProviderManagerOf(config_data) ==
    [ProviderManager0 EXCEPT
        !.config.fallback_strategy =
            IF "fallback_strategy" \in config_data.members
            THEN config_data.fallback_strategy
            ELSE "priority"]

\* reload_config, load_provider_config: the manager built from the file
\* takes the place of the one in use; when none with providers can be built
\* the reference is set to None, the legacy configuration fails for want of
\* OPENAI_API_KEY and the endpoint replies 500.
reload_config ==
    /\ app.provider_manager.generation < MaxReloads
    /\ IF loads(app.config_file)
       THEN /\ pm' = ProviderManagerOf(app.config_file)
            /\ app' = [app EXCEPT
                          !.provider_manager =
                              [generation |-> @.generation + 1, none |-> FALSE],
                          !.exchange = reload_exchange("200")]
       ELSE /\ pm' = pm
            /\ app' = [app EXCEPT
                          !.provider_manager.none = TRUE,
                          !.exchange = reload_exchange("500")]
    /\ UNCHANGED <<req, hist, served>>

\* The steps of a request while config.provider_manager refers to a
\* manager.
managed_create_message(r) ==
    /\ ~app.provider_manager.none
    /\ create_message(r)

managed_start_call(r) ==
    /\ ~app.provider_manager.none
    /\ start_call(r)

managed_upstream_success(r) ==
    /\ ~app.provider_manager.none
    /\ upstream_success(r)

managed_retry_in_provider(r, error) ==
    /\ ~app.provider_manager.none
    /\ retry_in_provider(r, error)

managed_fallback_without_retry(r, error) ==
    /\ ~app.provider_manager.none
    /\ fallback_without_retry(r, error)

managed_fallback_after_retry(r, error) ==
    /\ ~app.provider_manager.none
    /\ fallback_after_retry(r, error)

managed_finish(r) ==
    /\ ~app.provider_manager.none
    /\ finish(r)

ReloadNext ==
    \/ \E r \in Requests : managed_create_message(r)
    \/ \E r \in Requests : managed_start_call(r)
    \/ \E r \in Requests : managed_upstream_success(r)
    \/ \E r \in Requests, error \in ServerErrors :
           managed_retry_in_provider(r, error)
    \/ \E r \in Requests, error \in ServerErrors :
           managed_fallback_without_retry(r, error)
    \/ \E r \in Requests, error \in ServerErrors :
           managed_fallback_after_retry(r, error)
    \/ \E r \in Requests : managed_finish(r)
    \/ \E config_data \in Documents : save_providers_config(config_data)
    \/ reload_config

ReloadSpec == Init /\ [][ReloadNext]_vars

(***************************************************************************)
(* The life of the process: main serves until uvicorn.run returns.         *)
(***************************************************************************)

\* A selection, a recorded failure, a sweep or a clock tick while the
\* process serves.
serving_pick(model_type) ==
    /\ app.process = "serving"
    /\ pick(model_type)

serving_mark_failure(provider_name) ==
    /\ app.process = "serving"
    /\ mark_failure(provider_name)

serving_sweep ==
    /\ app.process = "serving"
    /\ sweep

serving_tick ==
    /\ app.process = "serving"
    /\ tick

\* A caller awaits ProviderManager.close().
closing ==
    /\ app.process = "serving"
    /\ pm' = close(pm)
    /\ UNCHANGED <<req, hist, served, app>>

\* main: uvicorn.run returns and the process exits; nothing is called on
\* the provider manager on the way out.
shutdown ==
    /\ app.process = "serving"
    /\ app' = [app EXCEPT !.process = "exited"]
    /\ UNCHANGED <<pm, req, hist, served>>

ShutdownNext ==
    \/ \E t \in ModelTypes : serving_pick(t)
    \/ \E p \in Providers : serving_mark_failure(p)
    \/ serving_sweep
    \/ serving_tick
    \/ closing
    \/ shutdown

ShutdownSpec == Init /\ [][ShutdownNext]_vars

(***************************************************************************)
(* The claims.                                                             *)
(***************************************************************************)

Status(p) == pm.providers[p].status

FailureCount(p) == pm.providers[p].failure_count

\* C1: in every reachable state, every provider whose status is healthy has
\* failure_count = 0.
C1_HealthyHasNoFailures ==
    \A p \in Providers : Status(p) = "healthy" => FailureCount(p) = 0

\* C2: in every reachable state, every provider whose status is circuit_open
\* has failure_count >= failure_threshold.
C2_OpenOnlyAtThreshold ==
    \A p \in Providers : Status(p) = "circuit_open" => FailureCount(p) >= FailureThreshold

\* A circuit is open and its provider's count stands at the threshold.
C2_Witness ==
    \E p \in Providers : Status(p) = "circuit_open" /\ FailureCount(p) = FailureThreshold

\* C3: for every provider and size class with a non-empty model list, the
\* rotation cursor lies in 0 .. len(models) - 1 in every reachable state.
C3_CursorInRange ==
    \A p \in Providers, t \in ModelTypes :
        Len(models(p, t)) > 0 =>
            /\ pm.providers[p].model_indices[t] >= 0
            /\ pm.providers[p].model_indices[t] < Len(models(p, t))

\* The cursor of a list of two models stands on the second model, and the
\* cursor of a list of one model has been moved at least once (the sweeper
\* is started by the first selection).
C3_Witness ==
    /\ pm.providers["A"].model_indices["big"] = 1
    /\ pm.health_checks_started

\* C4: while one inbound request is handled, all its recursive fallback
\* attempts included, mark_provider_failure is called on any given provider
\* at most once.
C4_MarkedFailedAtMostOnce ==
    \A r \in Requests : hist[r].refailed \cap Providers = {}

\* C5: the providers one request goes to (the initial one and each one chosen
\* after a mark_provider_failure) contain no provider twice, whatever sweeps
\* and admin toggles happen in between.
C5_NoProviderTriedTwice ==
    \A r \in Requests : hist[r].retried \cap Providers = {}

\* C6: the escalations of one request are bounded by the number of distinct
\* providers it went to, and the fallback loop selects again only while a
\* healthy provider remains: an escalation never lands on anything but a
\* configured provider.
C6_FallbackLoopStops ==
    \A r \in Requests :
        /\ req[r].depth <= Cardinality(hist[r].tried \cap Providers)
        /\ req[r].depth > 0 => req[r].provider_name \in Providers \cup {NoProvider}

\* C9: with A always failing and B always succeeding, once failure_threshold
\* sequential requests have been answered A's status is circuit_open.
C9_OpenAfterThresholdRequests ==
    served >= FailureThreshold => Status("A") = "circuit_open"

LastFailureTime(p) == pm.providers[p].last_failure_time

\* A step of the health sweeper.
SweepStep ==
    /\ pm.health_checks_started
    /\ pm.health_check_task = "running"
    /\ pm' = perform_health_checks(pm)
    /\ UNCHANGED <<req, hist, served, app>>

\* C7, as the code has it: a sweep sets a circuit_open provider to healthy
\* with failure_count = 0 when MORE than recovery_timeout has passed since its
\* last failure, and leaves it circuit_open until then; and with the sweeper
\* started and fairly scheduled, every circuit_open provider eventually is
\* healthy again or has been disabled by the admin.
C7_SweepRearmsAfterTimeout ==
    /\ [][SweepStep =>
            \A p \in Providers :
                Status(p) = "circuit_open" =>
                    IF LastFailureTime(p) > RecoveryTimeout
                    THEN pm'.providers[p].status = "healthy"
                         /\ pm'.providers[p].failure_count = 0
                    ELSE pm'.providers[p] = pm.providers[p]]_vars
    /\ \A p \in Providers :
           (Status(p) = "circuit_open" /\ pm.health_checks_started)
               ~> (Status(p) = "healthy" \/ ~pm.providers[p].enabled)

\* C7 as stated: once recovery_timeout has passed since the last failure of a
\* circuit_open provider, the next sweep sets it to healthy with
\* failure_count = 0.
C7_SweepRearmsAtTimeout ==
    [][SweepStep =>
          \A p \in Providers :
              (Status(p) = "circuit_open" /\ LastFailureTime(p) >= RecoveryTimeout) =>
                  /\ pm'.providers[p].status = "healthy"
                  /\ pm'.providers[p].failure_count = 0]_vars

\* A provider that failed, never succeeded, and stands healthy with its count
\* at zero after the timeout: a sweep has re-armed it.
C7_Witness ==
    \E p \in Providers :
        /\ pm.health_checks_started
        /\ Status(p) = "healthy"
        /\ FailureCount(p) = 0
        /\ LastFailureTime(p) > RecoveryTimeout
        /\ pm.providers[p].last_success_time = NoTime

\* C8: every call of mark_provider_failure that leaves failure_count below
\* the threshold sets status unhealthy, the call that raises failure_count
\* from failure_threshold - 1 to failure_threshold (and any later one) sets
\* circuit_open, and a provider is never circuit_open with a smaller count.
C8_OpensExactlyAtThreshold ==
    [][\A p \in Providers :
          /\ Status(p)' = "circuit_open" => FailureCount(p)' >= FailureThreshold
          /\ FailureCount(p)' = FailureCount(p) + 1 =>
                /\ FailureCount(p)' < FailureThreshold => Status(p)' = "unhealthy"
                /\ FailureCount(p)' >= FailureThreshold => Status(p)' = "circuit_open"]_vars

\* One provider has just had its circuit opened by the call that brought its
\* count to the threshold, the other stands unhealthy one failure short of it.
C8_Witness ==
    \E p, q \in Providers :
        /\ Status(p) = "circuit_open"
        /\ FailureCount(p) = FailureThreshold
        /\ LastFailureTime(p) = 0
        /\ Status(q) = "unhealthy"
        /\ FailureCount(q) = FailureThreshold - 1
        /\ pm.providers[q].enabled

\* In this step the handler of request r has a selection return provider p:
\* the initial selection, the selection after a fallback, or the next model
\* of the provider the request is on.
Selected(r, p) ==
    /\ req'[r].provider_name = p
    /\ \/ req[r].pc # "disconnect_check" /\ req'[r].pc = "disconnect_check"
       \/ req[r].pc = "call" /\ req'[r].pc = "retry_call"

\* C10, as the code has it: a selection returns only providers whose status
\* is healthy, and a provider leaves circuit_open only by a sweep after more
\* than recovery_timeout since its last failure (healthy, count 0), by a
\* recorded success (healthy, count 0), or by the admin disabling it
\* (unhealthy, from where enabling it again makes it healthy).
C10_SelectionOnlyAfterRearm ==
    [][\A p \in Providers :
          /\ (\E r \in Requests : Selected(r, p)) =>
                 Status(p) = "healthy" /\ Status(p)' = "healthy"
          /\ (Status(p) = "circuit_open" /\ Status(p)' # "circuit_open") =>
                 \/ /\ LastFailureTime(p) > RecoveryTimeout
                    /\ Status(p)' = "healthy"
                    /\ FailureCount(p)' = 0
                 \/ /\ pm'.providers[p].last_success_time = 0
                    /\ Status(p)' = "healthy"
                    /\ FailureCount(p)' = 0
                 \/ /\ ~pm'.providers[p].enabled
                    /\ Status(p)' = "unhealthy"]_vars

\* C10 as stated: once a provider's circuit has opened, no selection returns
\* it until a sweep after the cool-down has re-armed it.  A provider whose
\* failure_count stands at or above the threshold has had its circuit opened
\* and no sweep has re-armed it since (a re-arming sweep zeroes the count), so
\* no selection returns such a provider.
C10_NoSelectionBeforeSweepRearm ==
    [][\A p \in Providers :
          (\E r \in Requests : Selected(r, p)) =>
              FailureCount(p) < FailureThreshold]_vars

\* A request has just been handed a provider that failed, never succeeded and
\* stands healthy with its count at zero after the timeout: its circuit was
\* opened, a sweep re-armed it, and the selection returns it again.
C10_Witness ==
    \E r \in Requests :
        /\ req[r].pc = "disconnect_check"
        /\ req[r].depth = 0
        /\ req[r].provider_name \in Providers
        /\ Status(req[r].provider_name) = "healthy"
        /\ FailureCount(req[r].provider_name) = 0
        /\ LastFailureTime(req[r].provider_name) > RecoveryTimeout
        /\ pm.providers[req[r].provider_name].last_success_time = NoTime

\* The providers a selection for the class may return: healthy, with a model
\* of the class, and not the excluded one.
Eligible(model_type, exclude_provider) ==
    {p \in Providers : /\ Status(p) = "healthy"
                       /\ Len(models(p, model_type)) > 0
                       /\ p # exclude_provider}

Range(s) == {s[i] : i \in DOMAIN s}

\* What a caller may pass as exclude_provider: nothing, or a name.
Excludes == ProviderNames \cup {NoProvider}

\* C11: in every reachable state, what pick, pick-with-exclude and
\* pick_next_in return when called is a provider that is healthy at the call,
\* has a model of the class and is not the excluded one, with a model of its
\* list for the class; and none when no provider qualifies.
C11_SelectionReturnsEligible ==
    /\ \A t \in ModelTypes, ex \in Excludes :
          /\ get_client_for_model(pm, t, ex) # {}
          /\ \A o \in get_client_for_model(pm, t, ex) :
                IF Eligible(t, ex) = {}
                THEN o.provider = NoProvider /\ o.model = NoModel
                ELSE /\ o.provider \in Eligible(t, ex)
                     /\ o.model \in Range(models(o.provider, t))
    /\ \A t \in ModelTypes, p \in ProviderNames :
          LET o == get_next_model_for_provider(pm, p, t)
          IN  IF p \in Eligible(t, NoProvider)
              THEN o.provider = p /\ o.model \in Range(models(p, t))
              ELSE o.provider = NoProvider /\ o.model = NoModel

\* Selections have been made, A's circuit is open and B is healthy: a pick
\* for the big class returns B, and a pick excluding B returns none.
C11_Witness ==
    /\ pm.providers["A"].model_indices["big"] = 1
    /\ Status("A") = "circuit_open"
    /\ Status("B") = "healthy"
    /\ \A o \in get_client_for_model(pm, "big", NoProvider) :
          o.provider = "B" /\ o.model = "n1"
    /\ \A o \in get_client_for_model(pm, "big", "B") : o.provider = NoProvider

\* The position of a provider in the configuration file.
Position(p) == CHOOSE i \in DOMAIN pm.config.order : pm.config.order[i] = p

\* The provider names in sorted order.
SortedNames == <<"A", "B">>

NameRank(p) == CHOOSE i \in DOMAIN SortedNames : SortedNames[i] = p

\* C12, as the code has it: under fallback_strategy = priority a selection
\* returns the eligible provider with the smallest priority number, and among
\* eligible providers of equal priority the one that comes first in the
\* configuration file.
C12_LeastPriorityThenFileOrder ==
    pm.config.fallback_strategy = "priority" =>
        \A t \in ModelTypes, ex \in Excludes :
            \A o \in get_client_for_model(pm, t, ex) :
                Eligible(t, ex) # {} =>
                    /\ o.provider \in Eligible(t, ex)
                    /\ \A q \in Eligible(t, ex) \ {o.provider} :
                          \/ pm.config.priority[o.provider] < pm.config.priority[q]
                          \/ /\ pm.config.priority[o.provider] = pm.config.priority[q]
                             /\ Position(o.provider) < Position(q)

\* C12 as stated: ... and among eligible providers of equal priority the one
\* whose name sorts first.
C12_LeastPriorityThenName ==
    pm.config.fallback_strategy = "priority" =>
        \A t \in ModelTypes, ex \in Excludes :
            \A o \in get_client_for_model(pm, t, ex) :
                Eligible(t, ex) # {} =>
                    /\ o.provider \in Eligible(t, ex)
                    /\ \A q \in Eligible(t, ex) \ {o.provider} :
                          \/ pm.config.priority[o.provider] < pm.config.priority[q]
                          \/ /\ pm.config.priority[o.provider] = pm.config.priority[q]
                             /\ NameRank(o.provider) < NameRank(q)

\* B stands before A in the file with the same priority, both are healthy
\* after a failure and a success each, and the selection for the big class
\* returns B.
C12_Witness ==
    /\ pm.config.fallback_strategy = "priority"
    /\ pm.config.order = <<"B", "A">>
    /\ pm.config.priority["A"] = pm.config.priority["B"]
    /\ \A p \in Providers :
          /\ Status(p) = "healthy"
          /\ LastFailureTime(p) # NoTime
          /\ pm.providers[p].last_success_time # NoTime
    /\ \A o \in get_client_for_model(pm, "big", NoProvider) : o.provider = "B"

Cursor(m, p, model_type) == m.providers[p].model_indices[model_type]

\* A selection result o for the class, obtained in manager state m: it is the
\* model at the cursor of the returned provider, the cursor has moved on by
\* exactly one (mod the length of the list), no other cursor has moved, and
\* the next selection of that provider returns the model after it.
InTurn(m, o, model_type) ==
    o.provider \in Providers =>
        LET p  == o.provider
            ms == models(p, model_type)
            i  == Cursor(m, p, model_type)
        IN  /\ o.model = ms[i + 1]
            /\ Cursor(o.m, p, model_type) = (i + 1) % Len(ms)
            /\ \A q \in Providers, t \in ModelTypes :
                   <<q, t>> # <<p, model_type>> => Cursor(o.m, q, t) = Cursor(m, q, t)
            /\ get_next_model_for_provider(o.m, p, model_type).model
                   = ms[((i + 1) % Len(ms)) + 1]

\* C13: every selection of a provider for a class (pick, pick-with-exclude,
\* pick_next_in) returns the model at the cursor and advances the cursor by
\* exactly one, so that successive selections return models[i],
\* models[(i+1) mod k], ...; and a cursor moves in no other way: a step that
\* records a failure or a success moves none.
C13_ModelsInCyclicOrder ==
    /\ [](/\ \A t \in ModelTypes, ex \in Excludes :
                \A o \in get_client_for_model(pm, t, ex) : InTurn(pm, o, t)
          /\ \A t \in ModelTypes, p \in ProviderNames :
                InTurn(pm, get_next_model_for_provider(pm, p, t), t))
    /\ [][\A p \in Providers, t \in ModelTypes :
             /\ Cursor(pm', p, t) \in
                    IF Len(models(p, t)) = 0
                    THEN {Cursor(pm, p, t)}
                    ELSE {Cursor(pm, p, t), (Cursor(pm, p, t) + 1) % Len(models(p, t))}
             /\ Cursor(pm', p, t) # Cursor(pm, p, t) =>
                    /\ Status(p) = "healthy" /\ Status(p)' = "healthy"
                    /\ \A q \in Providers :
                          /\ FailureCount(q)' = FailureCount(q)
                          /\ pm'.providers[q].last_success_time
                                 = pm.providers[q].last_success_time]_vars

\* A has handed out its first big model, has failed and succeeded since, and
\* the next selection for the big class returns its second one.
C13_Witness ==
    /\ Cursor(pm, "A", "big") = 1
    /\ Status("A") = "healthy"
    /\ LastFailureTime("A") # NoTime
    /\ pm.providers["A"].last_success_time # NoTime
    /\ \A o \in get_client_for_model(pm, "big", NoProvider) :
          o.provider = "A" /\ o.model = "m2"

\* The handler of r, its upstream call having failed, goes on to
\* mark_provider_failure in this step (and from there to the next provider or
\* to a reply).
MarksFailure(r) ==
    /\ req[r].pc \in {"call", "retry_call"}
    /\ req'[r].pc \in {"disconnect_check", "done"}
    /\ req'[r].reply # "200"

\* C14: when the first upstream call of a request fails and pick_next_in
\* finds a model, the next upstream call goes to another model of the same
\* provider; the provider is retried in once only (a failed retry is followed
\* by mark_failure, never by another retry); and mark_failure is not called on
\* the provider before the retry has failed or pick_next_in has found nothing.
C14_RetryOnAnotherModel ==
    [][\A r \in Requests :
          /\ (req[r].pc = "call" /\ req'[r].pc = "retry_call") =>
                 /\ req'[r].provider_name = req[r].provider_name
                 /\ req'[r].model_name # req[r].model_name
          /\ req[r].pc = "retry_call" => req'[r].pc # "retry_call"
          /\ (MarksFailure(r) /\ req[r].pc = "call") =>
                 next_model_for_provider(pm, req[r].claude_model,
                                         req[r].provider_name).provider = NoProvider]_vars

\* C15: within one request mark_failure(P) comes before the selection that
\* excludes P, with no step of anyone else between the two (the step that
\* makes the selections is the step that records the failure), and neither
\* that selection nor the selection used for the next attempt returns P.
C15_FailedProviderNotReturned ==
    [][\A r \in Requests :
          MarksFailure(r) =>
             LET P      == req[r].provider_name
                 marked == mark_provider_failure(pm, P)
             IN  /\ P \in Providers =>
                        pm'.providers[P].failure_count = FailureCount(P) + 1
                 /\ \A fallback_result \in
                        get_client_and_model(marked, req[r].claude_model, P) :
                        fallback_result.provider # P
                 /\ req'[r].pc = "disconnect_check" =>
                        req'[r].provider_name # P]_vars

\* What the reply of a request carries as its error: try_fallback's last
\* resort answers with the error it was handed; an exception that is no
\* HTTPException (the RecursionError of the fallback loop) becomes a 500 with
\* the message of that exception.
reply_error(q) ==
    IF q.reply = "error" THEN q.error
    ELSE IF q.reply = "500" THEN "internal"
    ELSE NoError

\* The first upstream call of request r raises an error of this kind, and the
\* handler takes its step on it.
FirstCallFails(r, error) ==
    /\ req[r].pc = "call"
    /\ req[r].depth = 0
    /\ \/ retry_in_provider(r, error)
       \/ fallback_without_retry(r, error)

\* C16: when the first upstream call of a request fails with invalid_request,
\* auth, permission or rate_limit, the request is answered with that error:
\* no retry in the provider, no escalation to another provider, and no
\* failure recorded for any provider.
C16_SurfacedWithoutFallback ==
    [][\A r \in Requests, error \in Surfaced :
          FirstCallFails(r, error) =>
             /\ req'[r].pc = "done"
             /\ req'[r].reply = "error"
             /\ reply_error(req'[r]) = error
             /\ \A p \in Providers :
                   /\ pm'.providers[p].failure_count = FailureCount(p)
                   /\ pm'.providers[p].status = Status(p)
                   /\ pm'.providers[p].last_failure_time = LastFailureTime(p)]_vars

\* C17: when every upstream call of a request has failed with a recoverable
\* error (timeout, connection, upstream) and no provider is left to escalate
\* to, the error the request is answered with is the error of the last
\* upstream call made.
C17_LastErrorReturned ==
    \A r \in Requests :
       (/\ req[r].pc = "done"
        /\ req[r].reply \in {"error", "500"}
        /\ hist[r].errors # {}
        /\ hist[r].errors \subseteq Recovered
        /\ Eligible(model_type_of(req[r].claude_model), NoProvider) = {})
       => reply_error(req[r]) = hist[r].last_error

\* C18: a request that arrives when no healthy provider has a model for its
\* class is answered with HTTP 503, and no upstream call is made for it.
C18_NoProviderIs503 ==
    [][\A r \in Requests :
          (/\ req[r].pc = "idle"
           /\ req'[r].pc # "idle"
           /\ Eligible(model_type_of(req'[r].claude_model), NoProvider) = {})
          => (req'[r].pc = "done" /\ req'[r].reply = "503")]_vars

\* The handler of r stands between the translation of the request and the
\* upstream call, and takes its step.
AfterTranslation(r) == req[r].pc = "disconnect_check" /\ req'[r] # req[r]

\* The client of r is seen disconnected in this step.
SeenDisconnected(r) == AfterTranslation(r) /\ req'[r].reply = "499"

\* C19: when the inbound client is seen disconnected after the translation of
\* the request and before the upstream call, the request ends with HTTP 499
\* there and then: no upstream call is made (the handler never reaches the
\* call), no fallback is started (no retry, no deeper attempt, nothing
\* recorded as failed or as tried anew), and no provider's failure_count,
\* status or last_failure_time changes; and the disconnect is seen in no other
\* place.
C19_DisconnectIs499 ==
    [][\A r \in Requests :
          /\ SeenDisconnected(r) =>
                /\ req'[r].pc = "done"
                /\ req'[r] = [req[r] EXCEPT !.pc = "done", !.reply = "499"]
                /\ hist'[r] = hist[r]
                /\ \A p \in Providers :
                      /\ pm'.providers[p].failure_count = FailureCount(p)
                      /\ pm'.providers[p].status = Status(p)
                      /\ pm'.providers[p].last_failure_time = LastFailureTime(p)
          /\ (req[r].reply # "499" /\ req'[r].reply = "499") => AfterTranslation(r)
          /\ (req[r].pc = "done" /\ req[r].reply = "499") =>
                req'[r] \in {req[r], IdleRequest}]_vars

\* A request that had failed on A and moved on to B is answered 499: A's
\* failure stays as recorded, B is untouched.
C19_Witness ==
    \E r \in Requests :
       /\ req[r].pc = "done"
       /\ req[r].reply = "499"
       /\ req[r].depth = 1
       /\ req[r].provider_name = "B"
       /\ hist[r].failed = {"A"}
       /\ Status("A") = "unhealthy"
       /\ FailureCount("A") = 1
       /\ Status("B") = "healthy"
       /\ FailureCount("B") = 0

\* An upstream call of request r is under way, or its stream has been opened.
Attempting(r) ==
    \/ req[r].pc \in {"call", "retry_call"}
    \/ req[r].pc = "done" /\ req[r].reply = "stream"

\* C20: with a provider manager configured, every attempt of a request is
\* made on a provider of the manager (the name reported as X-Provider), with a
\* model from that provider's list for the class of the request.
C20_ModelFromProviderList ==
    \A r \in Requests :
       Attempting(r) =>
          /\ req[r].provider_name \in Providers
          /\ req[r].model_name \in
                 Range(models(req[r].provider_name, model_type_of(req[r].claude_model)))

\* The place of a model in a list of models.
IndexOf(ms, model) == CHOOSE i \in DOMAIN ms : ms[i] = model

\* The cursor of the provider stands one past this model of its list.
CursorJustPast(m, p, model_type, model) ==
    Cursor(m, p, model_type) = IndexOf(models(p, model_type), model) % Len(models(p, model_type))

\* The first attempt of request r runs on a provider of the manager that has
\* at least two models of the class.
OnRotatingProvider(r) ==
    /\ req[r].depth = 0
    /\ req[r].provider_name \in Providers
    /\ Len(models(req[r].provider_name, model_type_of(req[r].claude_model))) >= 2

\* C21: a unary request on a provider with at least two models of the class,
\* whose first call fails and whose retry in the provider succeeds.  The
\* first call is on the model the cursor has just passed; the retry is on
\* the model after it and moves the cursor by one more (two in all, modulo
\* the length of the list); the success leaves the cursor there and the
\* provider healthy with failure_count 0; and mark_failure has not been
\* called on the provider.
C21_RetrySuccessResets ==
    [][\A r \in Requests :
          OnRotatingProvider(r) =>
             LET p  == req[r].provider_name
                 t  == model_type_of(req[r].claude_model)
                 ms == models(p, t)
             IN  /\ (req[r].pc = "call" /\ req'[r].pc = "retry_call") =>
                        /\ CursorJustPast(pm, p, t, req[r].model_name)
                        /\ req'[r].model_name =
                               ms[(IndexOf(ms, req[r].model_name) % Len(ms)) + 1]
                        /\ Cursor(pm', p, t) = (Cursor(pm, p, t) + 1) % Len(ms)
                 /\ (req[r].pc = "retry_call" /\ req'[r].reply = "200") =>
                        /\ CursorJustPast(pm, p, t, req[r].model_name)
                        /\ Cursor(pm', p, t) = Cursor(pm, p, t)
                        /\ pm'.providers[p].status = "healthy"
                        /\ pm'.providers[p].failure_count = 0
                        /\ p \notin hist'[r].failed]_vars

\* The request went to A's m1, which failed, and was answered from A's m2:
\* A is healthy without failures and its cursor has come round to 0.
C21_Witness ==
    \E r \in Requests :
       /\ req[r].pc = "done"
       /\ req[r].reply = "200"
       /\ req[r].depth = 0
       /\ req[r].provider_name = "A"
       /\ req[r].model_name = "m2"
       /\ hist[r].errors # {}
       /\ hist[r].failed = {}
       /\ Status("A") = "healthy"
       /\ FailureCount("A") = 0
       /\ Cursor(pm, "A", "big") = 0

\* Request r, having failed on provider a and on nothing else, is answered in
\* this step from the first call on another provider of the manager.
AnsweredByNext(r, a) ==
    /\ req[r].pc = "call"
    /\ req[r].depth = 1
    /\ hist[r].failed = {a}
    /\ req[r].provider_name \in Providers \ {a}
    /\ req'[r].reply = "200"

\* C22: a unary request whose provider A fails every call while the next
\* provider B succeeds, failure_threshold being larger than 1 and the
\* providers being healthy with failure_count 0 when they are picked (under
\* this specification a healthy provider always is): the reply is B's, and
\* after it A is unhealthy with failure_count 1 and B is healthy with
\* last_success_time set.
C22_FailoverLeavesOneFailure ==
    /\ [](\A p \in Providers : Status(p) = "healthy" => FailureCount(p) = 0)
    /\ [][\A r \in Requests, a \in Providers :
             (AnsweredByNext(r, a) /\ FailureThreshold > 1) =>
                LET b == req[r].provider_name
                IN  /\ req'[r].pc = "done"
                    /\ req'[r].provider_name = b
                    /\ pm'.providers[a].status = "unhealthy"
                    /\ pm'.providers[a].failure_count = 1
                    /\ pm'.providers[b].status = "healthy"
                    /\ pm'.providers[b].failure_count = 0
                    /\ pm'.providers[b].last_success_time # NoTime]_vars

\* A failed its two big models, B answered the request.
C22_Witness ==
    \E r \in Requests :
       /\ req[r].pc = "done"
       /\ req[r].reply = "200"
       /\ req[r].depth = 1
       /\ req[r].provider_name = "B"
       /\ req[r].model_name = "n1"
       /\ hist[r].tried = {"A", "B"}
       /\ hist[r].failed = {"A"}
       /\ Status("A") = "unhealthy"
       /\ FailureCount("A") = 1
       /\ Status("B") = "healthy"
       /\ pm.providers["B"].last_success_time # NoTime

\* The handler of r returns the StreamingResponse in this step.
StreamReturned(r) == req[r].pc # "done" /\ req'[r].pc = "done" /\ req'[r].reply = "stream"

\* C23: for a streaming request mark_success is called for the serving
\* provider once the upstream stream has produced its first event, and not
\* before: returning the StreamingResponse records no success, and by the
\* time the stream has come to its end the provider has a last_success_time.
C23_StreamSuccessMarked ==
    /\ [][\A r \in Requests : StreamReturned(r) => pm' = pm]_vars
    /\ [](\A r \in Requests :
             (/\ req[r].pc = "done"
              /\ req[r].reply = "stream_ended"
              /\ req[r].provider_name \in Providers)
             => pm.providers[req[r].provider_name].last_success_time # NoTime)

\* The handler of r starts a further upstream call in this step: the retry in
\* the provider, or the first call after an escalation.
FurtherCallStarted(r) ==
    \/ req[r].pc # "retry_call" /\ req'[r].pc = "retry_call"
    \/ req'[r].depth > req[r].depth

\* Upstream events of the stream of r have been forwarded to the client.
BytesForwarded(r) ==
    req[r].pc = "done" /\ req[r].reply \in {"stream_events", "stream_cut", "stream_ended"}

CallStarted(r) ==
    \/ req[r].pc # "call" /\ req'[r].pc = "call"
    \/ req[r].pc # "retry_call" /\ req'[r].pc = "retry_call"
    \/ StreamReturned(r)

toggled_off_and_on(m, p) == toggle_provider(toggle_provider(m, p, FALSE), p, TRUE)

\* C26: toggling a provider off and on again, with no other operation in
\* between, leaves a provider that was healthy healthy, and does not bring a
\* provider that was circuit_open back to circuit_open (it comes out healthy,
\* its failure_count and timestamps as they were); no other provider changes.
C26_ToggleOffOnRestoresHealthy ==
    \A p \in Providers :
       LET after == toggled_off_and_on(pm, p)
       IN  /\ Status(p) = "healthy" => after.providers[p].status = "healthy"
           /\ Status(p) = "circuit_open" =>
                  /\ after.providers[p].status # "circuit_open"
                  /\ after.providers[p].status = "healthy"
           /\ after.providers[p] =
                  [pm.providers[p] EXCEPT !.status  = after.providers[p].status,
                                          !.enabled = TRUE]
           /\ \A q \in Providers \ {p} : after.providers[q] = pm.providers[q]

\* A's circuit had opened; A was toggled off and on and is healthy again with
\* the failures that opened the circuit still counted, while B is open.
C26_Witness ==
    /\ Status("A") = "healthy"
    /\ pm.providers["A"].enabled
    /\ FailureCount("A") >= FailureThreshold
    /\ Status("B") = "circuit_open"
    /\ toggled_off_and_on(pm, "B").providers["B"].status = "healthy"


\* The exchange presents the configured key in one of the two headers.
PresentsKey(e) ==
    \/ e.x_api_key = app.anthropic_api_key
    \/ /\ e.authorization.scheme = "Bearer"
       /\ e.authorization.credentials = app.anthropic_api_key

\* C27: when ANTHROPIC_API_KEY is set, a request to any endpoint that does
\* not present the matching key in x-api-key or in Authorization: Bearer is
\* answered 401 and its handler is not entered, and one that presents it in
\* either header is accepted; when the key is unset every request is
\* accepted.
C27_RejectedUnlessKeyPresented ==
    LET e == app.exchange
    IN  e.route \in Routes =>
            IF app.anthropic_api_key = NoKey
            THEN e.entered
            ELSE /\ e.entered <=> PresentsKey(e)
                 /\ ~e.entered => e.reply = "401"


HasWord(name, word) ==
    \E i, j \in 1 .. Len(name) : lower(SubSeq(name, i, j)) = word

\* The size class of a name: small with haiku in it, else middle with
\* sonnet in it, else big.
SizeClass(name) ==
    IF HasWord(name, haiku) THEN "small"
    ELSE IF HasWord(name, sonnet) THEN "middle"
    ELSE "big"

\* C29: the model type of an inbound name is small if the lower-cased name
\* contains haiku, else middle if it contains sonnet, else big, with or
\* without opus in it; the first selection and the in-provider retry of a
\* request work out the same type for its name.
C29_SizeClassOfName ==
    /\ \A r \in Requests :
           /\ req[r].pc \in {"selected", "retried"}
                  => req[r].model_type = SizeClass(req[r].claude_model)
           /\ req[r].pc = "retried"
                  => req[r].retry_model_type = req[r].model_type
    /\ \A n \in InboundModels \cup {"claude-3-5-sonnet"} :
           model_type_of(n) = SizeClass(spelling(n))

\* The retry worked out small for a name with both Haiku and SONNET in it,
\* in upper case.
C29_Witness ==
    \E r \in Requests :
        /\ req[r].pc = "retried"
        /\ req[r].claude_model =
               <<"S", "O", "N", "N", "E", "T">> \o <<"H", "a", "i", "k", "u">>
        /\ req[r].retry_model_type = "small"


\* A step of a selection call: get_client_for_model, with or without an
\* excluded provider.
SelectionCall ==
    \/ \E t \in ModelTypes : pick(t)
    \/ \E t \in ModelTypes, p \in ProviderNames : pick_excluding(t, p)

\* C30: the manager has no sweeper task until a selection call creates one,
\* it never has more than one however many selection calls are made between
\* and around the sweeps, and every sweep is a step of that one task.
C30_AtMostOneSweeper ==
    /\ [](/\ pm.health_check_tasks <= 1
          /\ pm.health_check_tasks = 1 <=> pm.health_checks_started)
    /\ [][/\ pm'.health_check_tasks # pm.health_check_tasks => SelectionCall
          /\ sweep => pm.health_check_tasks = 1]_vars

\* The one sweeper task has re-armed a provider whose circuit was open, and
\* selections were made: A's cursor has moved.
C30_Witness ==
    /\ pm.health_check_tasks = 1
    /\ pm.providers["A"].model_indices["big"] = 1
    /\ \E p \in Providers :
           /\ pm.providers[p].status = "healthy"
           /\ pm.providers[p].failure_count = 0
           /\ pm.providers[p].last_failure_time # NoTime
           /\ pm.providers[p].last_success_time = NoTime

\* C33: mark_provider_success on a provider the manager knows sets
\* failure_count to 0, status to healthy and last_success_time to now,
\* whatever the status was, and leaves last_failure_time as it was.
C33_SuccessResetsFromAnyStatus ==
    [][\A p \in Providers :
          mark_success(p) =>
              /\ pm'.providers[p].failure_count = 0
              /\ pm'.providers[p].status = "healthy"
              /\ pm'.providers[p].last_success_time = 0
              /\ pm'.providers[p].last_failure_time = LastFailureTime(p)]_vars

\* A success was just recorded for a provider that has failed before, while
\* the circuit of the other one is open.
C33_Witness ==
    \E p, q \in Providers :
        /\ Status(p) = "healthy"
        /\ FailureCount(p) = 0
        /\ pm.providers[p].last_success_time = 0
        /\ LastFailureTime(p) > 0
        /\ Status(q) = "circuit_open"

\* C34, as the code has it: a sweep sets a circuit_open provider to healthy
\* with failure_count = 0 if and only if MORE than recovery_timeout has
\* passed since its last failure; at exactly recovery_timeout, and before,
\* it leaves the provider as it is.
C34_SweepRearmsIffPastTimeout ==
    [][sweep =>
          \A p \in Providers :
              Status(p) = "circuit_open" =>
                  /\ (pm'.providers[p].status = "healthy"
                         /\ pm'.providers[p].failure_count = 0)
                     <=> LastFailureTime(p) > RecoveryTimeout
                  /\ LastFailureTime(p) <= RecoveryTimeout
                         => pm'.providers[p] = pm.providers[p]]_vars

\* C34 as stated: a sweep sets a circuit_open provider to healthy with
\* failure_count = 0 if and only if at least recovery_timeout has passed
\* since its last failure, the boundary included.
C34_SweepRearmsIffAtTimeout ==
    [][sweep =>
          \A p \in Providers :
              Status(p) = "circuit_open" =>
                  ((pm'.providers[p].status = "healthy"
                       /\ pm'.providers[p].failure_count = 0)
                   <=> LastFailureTime(p) >= RecoveryTimeout)]_vars

\* One provider was re-armed by a sweep while the other, whose last failure
\* is exactly recovery_timeout old, is still circuit_open.
C34_Witness ==
    \E p, q \in Providers :
        /\ pm.health_checks_started
        /\ Status(p) = "healthy"
        /\ FailureCount(p) = 0
        /\ LastFailureTime(p) > RecoveryTimeout
        /\ pm.providers[p].last_success_time = NoTime
        /\ Status(q) = "circuit_open"
        /\ LastFailureTime(q) = RecoveryTimeout

\* Provider p goes from unhealthy to healthy in this step.
Rehabilitated(p) ==
    /\ Status(p) = "unhealthy"
    /\ pm'.providers[p].status = "healthy"

\* C35, as the code has it: a sweep leaves every unhealthy provider as it
\* is, and a provider goes from unhealthy to healthy only in a call of
\* mark_provider_success for it or in an admin toggle that enables it.
C35_UnhealthyLeftToSuccessOrToggle ==
    [][/\ sweep =>
              \A p \in Providers :
                  Status(p) = "unhealthy" => pm'.providers[p] = pm.providers[p]
       /\ \A p \in Providers :
              Rehabilitated(p) => (mark_success(p) \/ toggle(p, TRUE))]_vars

\* C35 as stated: a sweep leaves every unhealthy provider as it is, and a
\* provider goes from unhealthy to healthy only in a call of
\* mark_provider_success for it.
C35_UnhealthyLeftToSuccess ==
    [][/\ sweep =>
              \A p \in Providers :
                  Status(p) = "unhealthy" => pm'.providers[p] = pm.providers[p]
       /\ \A p \in Providers : Rehabilitated(p) => mark_success(p)]_vars

\* A sweep has re-armed one provider and left the other, which failed as
\* long ago, unhealthy with its failure on record.
C35_Witness ==
    \E p, q \in Providers :
        /\ pm.health_checks_started
        /\ Status(p) = "healthy"
        /\ FailureCount(p) = 0
        /\ LastFailureTime(p) > RecoveryTimeout
        /\ pm.providers[p].last_success_time = NoTime
        /\ Status(q) = "unhealthy"
        /\ FailureCount(q) = 1
        /\ LastFailureTime(q) > RecoveryTimeout

\* C40: mark_provider_failure and mark_provider_success change nothing but
\* failure_count, status, last_failure_time and last_success_time of the
\* provider they name: the enabled flag and the rotation cursors of that
\* provider, the state of every other provider and the rest of the manager
\* stay as they were, and a name the manager has no provider for changes
\* nothing.
C40_MarksTouchOnlyNamedHealth ==
    [][\A name \in ProviderNames :
          (mark_failure(name) \/ mark_success(name)) =>
              /\ \A q \in Providers \ {name} : pm'.providers[q] = pm.providers[q]
              /\ name \in Providers =>
                     /\ pm'.providers[name].model_indices
                            = pm.providers[name].model_indices
                     /\ pm'.providers[name].enabled = pm.providers[name].enabled
              /\ name \notin Providers => pm' = pm
              /\ pm'.config = pm.config
              /\ pm'.health_checks_started = pm.health_checks_started
              /\ pm'.health_check_tasks = pm.health_check_tasks]_vars

\* A failure was just recorded for A, whose cursor for the big models stands
\* past the first one, and a success for B.
C40_Witness ==
    /\ Status("A") = "unhealthy"
    /\ LastFailureTime("A") = 0
    /\ pm.providers["A"].model_indices["big"] = 1
    /\ pm.providers["B"].last_success_time = 0
    /\ pm.providers["A"].model_indices["small"] = 0
    /\ pm.providers["A"].last_success_time = NoTime

\* C31: when the process has exited, its sweeper task, if one was started,
\* has ended; a call of close() leaves no sweeper task running and does
\* nothing to a manager whose sweeper was never started; and no sweep runs
\* once the task has ended.
C31_SweeperEndedOnShutdown ==
    /\ [](app.process = "exited" => pm.health_check_task # "running")
    /\ [][/\ closing =>
                 /\ pm'.health_check_task # "running"
                 /\ pm.health_check_task = "none" => pm' = pm
          /\ pm.health_check_task = "done" =>
                 pm'.providers = pm.providers \/ ~serving_sweep]_vars

\* C32: whenever a request has a stream response, from its first attempt,
\* from an in-provider retry or after an escalation, the id given to the
\* upstream stream call, the id given to the cancellation-aware translator
\* and the id reported in X-Request-ID are one and the same.
C32_OneRequestId ==
    \A r \in Requests :
        (req[r].pc = "done" /\ req[r].reply = "stream") =>
            /\ hist[r].ids.upstream # NoId
            /\ hist[r].ids.upstream = hist[r].ids.translator
            /\ hist[r].ids.upstream = hist[r].ids.reported

\* The handler of request r reads or writes the provider manager in this
\* step: it records a success or a failure or asks for the next model.
UsesManager(r) ==
    \/ upstream_success(r)
    \/ \E error \in ErrorKinds :
           \/ retry_in_provider(r, error)
           \/ fallback_without_retry(r, error)
           \/ fallback_after_retry(r, error)

\* C36: a reload puts the manager it built in the place of the one in use
\* in one step, and the handler of a request records its success and its
\* failure, and asks for its retry model, on the manager it made its
\* selection from, whatever reload happened since.
C36_InFlightKeepsItsManager ==
    [][/\ (reload_config /\ loads(app.config_file)) =>
              /\ pm' = ProviderManagerOf(app.config_file)
              /\ app'.provider_manager.generation
                     = app.provider_manager.generation + 1
       /\ \A r \in Requests :
              UsesManager(r) =>
                  hist[r].manager = app.provider_manager.generation]_vars

\* C39: a reload that replies with an error leaves config.provider_manager
\* referring to the manager it referred to, with the provider states it
\* had, and never to None.
C39_FailedReloadKeepsManager ==
    [][(reload_config /\ app'.exchange.reply = "500") =>
           /\ app'.provider_manager = app.provider_manager
           /\ ~app'.provider_manager.none
           /\ pm' = pm]_vars

(***************************************************************************)
(* Rotation cursor and upstream attempts.                                  *)
(***************************************************************************)

\* The handler of r comes out of try_fallback into a new attempt on a
\* configured provider.
Escalated(r) ==
    /\ req[r].pc \in {"call", "retry_call"}
    /\ req'[r].pc = "disconnect_check"
    /\ req'[r].provider_name \in Providers

\* C37: an escalation hands out one model of the provider it goes to, for
\* one upstream call: the attempt is on the model at that provider's cursor
\* as it stood before the escalation, and the cursor has moved on by one.
C37_EscalationStartsAtCursor ==
    [][\A r \in Requests :
          Escalated(r) =>
              LET p             == req'[r].provider_name
                  model_type    == model_type_of(req[r].claude_model)
                  current_index == pm.providers[p].model_indices[model_type]
                  ms            == models(p, model_type)
              IN  /\ req'[r].model_name = ms[current_index + 1]
                  /\ pm'.providers[p].model_indices[model_type]
                         = (current_index + 1) % Len(ms)]_vars

(***************************************************************************)
(* Disabled providers and the selections.                                  *)
(***************************************************************************)

\* C38: a provider the admin has disabled (its last toggle was to
\* enabled = false) is returned by no selection, whatever successes and
\* failures the requests in flight record on it and whatever the sweeper does.
C38_DisabledNeverSelected ==
    [][\A p \in Providers :
          (\E r \in Requests : Selected(r, p)) => pm.providers[p].enabled]_vars

====
